---- MODULE Spec2Model ----
(***************************************************************************)
(* The Knob widget of knob.py: the properties min, max, step, value and    *)
(* _angle, the property setters, the value observer _value, and the touch  *)
(* handlers on_touch_down / on_touch_move with update_angle.               *)
(*                                                                         *)
(* Arithmetic.  The code computes in Python 3 floats.  The model computes  *)
(* the same expressions exactly, in scaled integers; the rounding error of *)
(* a double (a relative 1e-16) is not modelled:                            *)
(*   - value is held in 360ths (ValueScale), so that                       *)
(*     (max - min) * angle / 360. + min, with angle a whole number of      *)
(*     degrees, is an integer;                                             *)
(*   - _angle is held in thousandths of a degree (MilliPerDeg);            *)
(*   - the local variable angle of update_angle, before it is quantized,   *)
(*     is held in millionths of a degree (MicroPerDeg), which keeps the    *)
(*     excess of 180/3.141592 over 180/pi (45.000009 for a diagonal);      *)
(*   - round() is Python 3's, half to even.                                *)
(* The configurations drawn (Mins, Maxs, Steps, Values) are such that      *)
(* every division of _value is exact in thousandths of a degree.           *)
(***************************************************************************)
EXTENDS Integers, FiniteSets, Sequences, TLC

VARIABLES
    min,       \* Knob.min
    max,       \* Knob.max
    step,      \* Knob.step
    value,     \* Knob.value, in 360ths
    _angle,    \* Knob._angle, in thousandths of a degree
    pressed,   \* the active touch: "none", or where it went down
    last,      \* the last operation: its name, the local angle and outcome
    exc        \* the exception the last operation raised, "none" if none

vars == <<min, max, step, value, _angle, pressed, last, exc>>

----------------------------------------------------------------------------
(* Units and inputs *)

ValueScale == 360
MilliPerDeg == 1000
MicroPerDeg == 1000000

\* Half the side of the widget: collide_point holds for |rx|, |ry| <= HalfSize.
HalfSize == 1

Mins == {0, 1}
Maxs == {1, 3, 10}
Steps == {-1, 0, 1, 6}
Values == {0, 1, 3, 10}

\* Touch positions relative to the centre: the widget and one ring around it.
Coords == (0 - HalfSize - 1) .. (HalfSize + 1)

Abs(x) == IF x < 0 THEN 0 - x ELSE x

----------------------------------------------------------------------------
(* Kivy properties *)

\* BoundedNumericProperty(1, min=0): a value below the bound is refused.
step_accepts(s) == s >= 0

\* Widget.collide_point for a touch at (rx, ry) from the centre.
collide_point(rx, ry) == Abs(rx) <= HalfSize /\ Abs(ry) <= HalfSize

----------------------------------------------------------------------------
(* update_angle: the pointer's angle *)

\* floor(a * b / c) for a, b >= 0, c > 0, without leaving 32 bits:
\* <<quotient, remainder>> of r * b by c, by halving b.
RECURSIVE MulDivRem(_, _, _)
MulDivRem(r, b, c) ==
    IF b = 0 THEN <<0, 0>>
    ELSE LET h == MulDivRem(r, b \div 2, c)
             t == 2 * h[2] + (b % 2) * r
         IN  <<2 * h[1] + t \div c, t % c>>

MulDiv(a, b, c) == (a \div c) * b + MulDivRem(a % c, b, c)[1]

\* math.atan(p / q) for 0 <= p, 0 < q, in billionths of a radian.
atan(p, q) ==
    CASE p = 0 -> 0
      [] p = q -> 785398163
      [] p = 1 /\ q = 2 -> 463647609
      [] p = 1 /\ q = 3 -> 321750554
      [] p = 2 /\ q = 1 -> 1107148717
      [] p = 2 /\ q = 3 -> 588002603
      [] p = 3 /\ q = 1 -> 1249045772
      [] p = 3 /\ q = 2 -> 982793723

\* x * 180. / 3.141592, from billionths of a radian to millionths of a degree.
degrees(a) == MulDiv(a, 180 * 1000, 3141592)

quadrant(rx, ry) ==
    IF ry >= 0 THEN (IF rx >= 0 THEN 1 ELSE 4)
               ELSE (IF rx <= 0 THEN 3 ELSE 2)

\* The local variable angle after the try/except, in millionths of a degree.
touch_angle(rx, ry) ==
    LET quad == quadrant(rx, ry)
    IN  IF ry = 0
        THEN (IF quad <= 2 THEN 90 ELSE 270) * MicroPerDeg
        ELSE LET mag == degrees(atan(Abs(rx), Abs(ry)))
                 angle == IF (rx < 0) # (ry < 0) THEN 0 - mag ELSE mag
             IN  IF quad = 2 \/ quad = 3 THEN 180 * MicroPerDeg + angle
                 ELSE IF quad = 4 THEN 360 * MicroPerDeg + angle
                 ELSE angle

----------------------------------------------------------------------------
(* update_angle: the guard and the quantization *)

\* abs(angle - self._angle) > 90, angle in millionths and cur in thousandths.
far_mut(angle, cur) ==
    LET d == angle \div MilliPerDeg - cur
    IN  d > 180 * MilliPerDeg \/ d < 0 - 180 * MilliPerDeg
far(angle, cur) ==
    LET d == angle \div MilliPerDeg - cur
        f == angle % MilliPerDeg
    IN  \/ d > 90 * MilliPerDeg
        \/ d = 90 * MilliPerDeg /\ f > 0
        \/ d < 0 - 90 * MilliPerDeg

\* being_pressed and abs(angle - self._angle) > 90
jump_rejected(being_pressed, angle, cur) == being_pressed /\ far(angle, cur)

\* round(float(angle) / self._angle_step), _angle_step = 360. / ((max-min+1) / step):
\* the nearest whole number to angle * (max-min+1) / (360 * step), half to even.
round_steps_mut(angle, mn, mx, st) ==
    ((angle \div MicroPerDeg) * (mx - mn + 1)
        + ((angle % MicroPerDeg) * (mx - mn + 1)) \div MicroPerDeg) \div (360 * st)
round_steps(angle, mn, mx, st) ==
    LET N  == mx - mn + 1
        D  == 360 * st
        fN == (angle % MicroPerDeg) * N
        W  == (angle \div MicroPerDeg) * N + fN \div MicroPerDeg
        F  == fN % MicroPerDeg
        k0 == W \div D
        hi == 2 * (W % D) + (2 * F) \div MicroPerDeg
        lo == (2 * F) % MicroPerDeg
    IN  IF hi > D \/ (hi = D /\ lo > 0) THEN k0 + 1
        ELSE IF hi = D /\ lo = 0 THEN (IF k0 % 2 = 0 THEN k0 ELSE k0 + 1)
        ELSE k0

\* int(self._angle_step * round(float(angle) / self._angle_step)), whole degrees.
quantize(angle, mn, mx, st) ==
    (360 * st * round_steps(angle, mn, mx, st)) \div (mx - mn + 1)

\* (-self.min + self.max) * angle / 360. + self.min, in 360ths.
angle_to_value_mut(q, mn, mx) == (mx - mn) * q
angle_to_value(q, mn, mx) == (mx - mn) * q + ValueScale * mn

\* _value: (value - self.min) * 360. / (-self.min + self.max), in thousandths.
value_to_angle(v, mn, mx) == ((v - ValueScale * mn) * MilliPerDeg) \div (mx - mn)

----------------------------------------------------------------------------
(* The state after construction and the operations *)

Op(name, angle, q, res) == [op |-> name, angle |-> angle, q |-> q, res |-> res]

\* __init__: the keyword arguments are set before value is bound to _value,
\* so _angle keeps its default.
Init ==
    /\ min \in Mins
    /\ max \in Maxs
    /\ step \in {s \in Steps : step_accepts(s)}
    /\ value \in {ValueScale * v : v \in Values}
    /\ _angle = 0
    /\ pressed = "none"
    /\ last = Op("__init__", 0, 0, "none")
    /\ exc = "none"

\* self.value = v: the property is set and, when it changed, _value runs.
assign_value(v) ==
    IF v = value
    THEN /\ exc' = "none"
         /\ UNCHANGED <<value, _angle>>
    ELSE /\ value' = v
         /\ IF max = min
            THEN /\ exc' = "ZeroDivisionError in _value"
                 /\ UNCHANGED _angle
            ELSE /\ exc' = "none"
                 /\ _angle' = value_to_angle(v, min, max)

set_min(m) ==
    /\ exc = "none"
    /\ min' = m
    /\ last' = Op("set_min", 0, 0, "none")
    /\ UNCHANGED <<max, step, value, _angle, pressed, exc>>

set_max(m) ==
    /\ exc = "none"
    /\ max' = m
    /\ last' = Op("set_max", 0, 0, "none")
    /\ UNCHANGED <<min, step, value, _angle, pressed, exc>>

set_step(s) ==
    /\ exc = "none"
    /\ last' = Op("set_step", 0, 0, "none")
    /\ IF step_accepts(s)
       THEN /\ step' = s
            /\ exc' = "none"
       ELSE /\ exc' = "ValueError in step"
            /\ UNCHANGED step
    /\ UNCHANGED <<min, max, value, _angle, pressed>>

set_value(v) ==
    /\ exc = "none"
    /\ last' = Op("set_value", 0, 0, "none")
    /\ assign_value(ValueScale * v)
    /\ UNCHANGED <<min, max, step, pressed>>

update_angle(name, rx, ry, being_pressed) ==
    IF step = 0 \/ max - min + 1 = 0
    THEN /\ exc' = "ZeroDivisionError in update_angle"
         /\ last' = Op(name, 0, 0, "raised")
         /\ UNCHANGED <<value, _angle>>
    ELSE LET angle == touch_angle(rx, ry)
             q == quantize(angle, min, max, step)
         IN  IF jump_rejected(being_pressed, angle, _angle)
             THEN /\ last' = Op(name, angle, 0, "rejected")
                  /\ UNCHANGED <<value, _angle, exc>>
             ELSE IF q * MilliPerDeg = _angle
             THEN /\ last' = Op(name, angle, q, "same")
                  /\ UNCHANGED <<value, _angle, exc>>
             ELSE /\ last' = Op(name, angle, q, "committed")
                  /\ assign_value(angle_to_value(q, min, max))

on_touch_down(rx, ry) ==
    /\ exc = "none"
    /\ pressed = "none"
    /\ IF collide_point(rx, ry)
       THEN /\ pressed' = "inside"
            /\ update_angle("on_touch_down", rx, ry, FALSE)
       ELSE /\ pressed' = "outside"
            /\ last' = Op("on_touch_down", 0, 0, "outside")
            /\ UNCHANGED <<value, _angle, exc>>
    /\ UNCHANGED <<min, max, step>>

on_touch_move(rx, ry) ==
    /\ exc = "none"
    /\ pressed # "none"
    /\ IF collide_point(rx, ry)
       THEN update_angle("on_touch_move", rx, ry, TRUE)
       ELSE /\ last' = Op("on_touch_move", 0, 0, "outside")
            /\ UNCHANGED <<value, _angle, exc>>
    /\ UNCHANGED <<min, max, step, pressed>>

\* The touch ends; Knob inherits Widget's handler, which changes no property.
on_touch_up ==
    /\ exc = "none"
    /\ pressed # "none"
    /\ pressed' = "none"
    /\ last' = Op("on_touch_up", 0, 0, "none")
    /\ UNCHANGED <<min, max, step, value, _angle, exc>>

Next ==
    \/ \E m \in Mins : set_min(m)
    \/ \E m \in Maxs : set_max(m)
    \/ \E s \in Steps : set_step(s)
    \/ \E v \in Values : set_value(v)
    \/ \E rx \in Coords, ry \in Coords : on_touch_down(rx, ry)
    \/ \E rx \in Coords, ry \in Coords : on_touch_move(rx, ry)
    \/ on_touch_up

Spec == Init /\ [][Next]_vars

----------------------------------------------------------------------------
(* Properties *)

IsPress(l) == l.op = "on_touch_down" /\ l.res # "outside"
IsMove(l) == l.op = "on_touch_move" /\ l.res # "outside"
IsGesture(l) == IsPress(l) \/ IsMove(l)

InRange(v, mn, mx) == ValueScale * mn <= v /\ v <= ValueScale * mx

\* |angle - cur| > 90 degrees, angle in millionths and cur in thousandths of a
\* degree; a cur beyond 1000 degrees is far from every pointer angle.
MoreThan90(angle, cur) ==
    IF cur > 1000 * MilliPerDeg \/ cur < 0 - 1000 * MilliPerDeg
    THEN TRUE
    ELSE Abs(angle - MilliPerDeg * cur) > 90 * MicroPerDeg

\* C1: for a knob with min < max, step > 0 and value in [min, max], every press
\* or move that commits a value leaves min <= value <= max and 0 <= angle < 360.
C1_RangeInvariant ==
    [][(/\ min < max
        /\ step > 0
        /\ InRange(value, min, max)
        /\ IsGesture(last')
        /\ last'.res = "committed")
       => (/\ InRange(value', min', max')
           /\ 0 <= _angle'
           /\ _angle' < 360 * MilliPerDeg)]_vars

\* C2 as stated: a move of a touch that went down inside the control commits
\* its quantized candidate q only if |q - current angle| <= 90.
C2_CommitOnlyNearQuantized ==
    [][(pressed = "inside" /\ IsMove(last') /\ last'.res = "committed")
       => Abs(last'.q * MilliPerDeg - _angle) <= 90 * MilliPerDeg]_vars

\* C2 as amended: a move commits only if |r - current angle| <= 90 for the
\* pointer's unquantized angle r; when |r - current angle| > 90 the move is
\* discarded and value and angle keep their previous values.
C2_CommitOnlyNearRaw ==
    [][IsMove(last')
       => (/\ MoreThan90(last'.angle, _angle)
                => (last'.res # "committed" /\ value' = value /\ _angle' = _angle)
           /\ last'.res = "committed" => ~MoreThan90(last'.angle, _angle))]_vars

\* C2's case: a move inside the control has been discarded by the guard.
C2_Witness == pressed = "inside" /\ IsMove(last) /\ last.res = "rejected"

\* C3: after a press inside the control (of a knob with min < max and step > 0)
\* the knob's angle equals quantize(r), whatever the angle was before.
C3_PressAlwaysAccepts ==
    [][(min < max /\ step > 0 /\ IsPress(last'))
       => (exc' = "none" /\ _angle' = last'.q * MilliPerDeg)]_vars

C5_NoGestureWithBadStep == IsGesture(last) => step > 0

\* C6: max = min is refused when it is set, so no press, move or value update
\* ever divides by max - min = 0.
C6_NoDivisionByEmptyRange == ~(max = min /\ exc = "ZeroDivisionError in _value")

\* C7: a change of min, max or step leaves min <= value <= max for the new
\* min and max: it is refused or it brings value back into the range.
C7_ReconfigKeepsValueInRange ==
    [][(/\ last'.op \in {"set_min", "set_max", "set_step"}
        /\ exc' = "none"
        /\ min' < max'
        /\ InRange(value, min, max))
       => InRange(value', min', max')]_vars

\* The multiple k * angleStep against the pointer angle a, both times
\* (max - min + 1): <<whole degrees, millionths>> of |360 * step * k - a * N|.
Distance(k, angle, mn, mx, st) ==
    LET N  == mx - mn + 1
        fN == (angle % MicroPerDeg) * N
        W  == (angle \div MicroPerDeg) * N + fN \div MicroPerDeg
        F  == fN % MicroPerDeg
        M  == 360 * st * k
    IN  IF M <= W THEN <<W - M, F>>
        ELSE IF F = 0 THEN <<M - W, 0>>
        ELSE <<M - W - 1, MicroPerDeg - F>>

Nearer(d, e) == d[1] < e[1] \/ (d[1] = e[1] /\ d[2] < e[2])

Multiples == 0 .. 13

\* q is the whole-degree part of the k-th multiple of angleStep, the multiple
\* nearest to angle.
TruncatedNearest(q, angle, mn, mx, st) ==
    \E k \in Multiples :
        /\ q = (360 * st * k) \div (mx - mn + 1)
        /\ \A j \in Multiples :
              ~Nearer(Distance(j, angle, mn, mx, st), Distance(k, angle, mn, mx, st))

\* q is itself a multiple of angleStep, the one nearest to angle.
ExactNearest(q, angle, mn, mx, st) ==
    \E k \in Multiples :
        /\ q * (mx - mn + 1) = 360 * st * k
        /\ \A j \in Multiples :
              ~Nearer(Distance(j, angle, mn, mx, st), Distance(k, angle, mn, mx, st))

Quantized(l) == IsGesture(l) /\ l.res \in {"same", "committed"}

\* C8 as stated: the angle the quantization produces is an integer multiple of
\* angleStep = 360 / ((max - min + 1) / step), and no other multiple is nearer
\* to the pointer's angle.
C8_QuantizedIsMultiple ==
    Quantized(last) => ExactNearest(last.q, last.angle, min, max, step)

\* C8 as amended: the angle the quantization produces is the whole-degree part
\* (truncation) of the multiple of angleStep nearest to the pointer's angle.
C8_QuantizedIsTruncatedMultiple ==
    Quantized(last) => TruncatedNearest(last.q, last.angle, min, max, step)

\* C8's case: a gesture has quantized an angle whose nearest multiple of
\* angleStep is not a whole number of degrees.
C8_Witness ==
    /\ Quantized(last)
    /\ last.res = "committed"
    /\ (last.q * (max - min + 1)) % (360 * step) # 0

\* C9: in every reachable state angle = (value - min) * 360 / (max - min).
C9_AngleFollowsValue ==
    max # min => _angle * (max - min) = (value - ValueScale * min) * MilliPerDeg

\* C10: a move changes value or angle only when a press inside the control
\* preceded it with no release in between.
C10_MoveNeedsPressInside ==
    [][(last'.op = "on_touch_move" /\ pressed # "inside")
       => (value' = value /\ _angle' = _angle)]_vars

====
